---- MODULE Spec2Model ----
(***************************************************************************)
(* Device lifecycle state machine of src/src/main.c: button ISRs, the main *)
(* polling loop, the advertising controller (adv_start / adv_stop) and the *)
(* connection / pairing callbacks, together with the part of the wireless  *)
(* stack whose behaviour main.c observes.                                  *)
(*                                                                         *)
(* In the specifications Spec and SpecIter every block of the main loop and *)
(* every stack callback is one atomic transition.  In SpecFine the main     *)
(* thread advances one statement at a time, and the ISRs and the stack's    *)
(* callbacks, which run in other contexts, come between its statements.     *)
(***************************************************************************)
EXTENDS Integers, Sequences, FiniteSets, TLC

\* ---------------------------------------------------------------- bounds
\* Number of connection objects the stack can hand out.
MaxConns == 2
\* Largest number of button edges counted between two examinations of a flag.
MaxEdges == 2

\* ------------------------------------------------------- program constants
\* errno value compared with the result of bt_le_adv_start.
EALREADY == 120
\* Error results other than -EALREADY that a stack request can report.
OtherErrs == {-12, -5}

NUM_LEDS == 4

NoConn == 0
Conns == 1..MaxConns
Buttons == {"start", "stop", "toggle"}

VARIABLES
  current_conn,      \* main.c:52, NoConn for NULL
  start_pressed,     \* main.c:54
  stop_pressed,      \* main.c:55
  toggle_pressed,    \* main.c:56
  want_advertising,  \* main.c:58
  adv_is_running,    \* main.c:59
  use_rotating_rpa,  \* main.c:65
  leds,              \* output level of leds[0..3]
  pc,                \* block of the while(1) loop the main thread is at
  stk_adv,           \* the stack is broadcasting
  stk_ident,         \* the running broadcast uses the identity address
  stk_links,         \* connection objects with a live link
  refs,              \* references main.c holds on each connection object
  reqs,              \* requests sent to the stack by the last transition
  rets,              \* adv_start / adv_stop calls of the last transition
  ev,                \* the last transition
  pre,               \* program state before the last transition
  prev,              \* summary of the transition before the last one
  edges,             \* edges per button since its flag was last examined
  since_stop,        \* "stopped" once a stop intent ran with a connection
                     \* present, "restarted" once a start intent followed it,
                     \* "none" again at the disconnect notification
  iter,              \* intents the current loop iteration has acted on
  obs,               \* which history is recorded: "calls" (edges, rets, prev),
                     \* "iter" (since_stop, iter) or "fine" (statement
                     \* level); fixed from the start
  mpc,               \* statement the main thread is at (SpecFine)
  ra,                \* where adv_start / adv_stop returns to
  rot,               \* adv_start's argument rotating_rpa
  reg,               \* current_conn as read by the test at main.c:396
  owed,              \* buttons with an edge no policy action has followed yet
  race,              \* button whose edge came between the test and the
                     \* clearing of its flag, until its action begins
  disc               \* handle the main loop has just given to bt_conn_disconnect

prog == <<current_conn, want_advertising, adv_is_running, use_rotating_rpa, leds>>
stk == <<stk_adv, stk_ident, stk_links, refs>>
flags == <<start_pressed, stop_pressed, toggle_pressed>>
hist == <<reqs, rets, ev, pre, prev>>
ghost == <<since_stop, iter, obs>>
fctl == <<mpc, ra, rot, reg>>
fghost == <<owed, race, disc>>
fine == <<fctl, fghost>>
vars == <<prog, stk, flags, hist, pc, edges, ghost, fine>>

\* ------------------------------------------------------------------ state
\* The intent flag of button b.
Flag(b) ==
  CASE b = "start" -> start_pressed
    [] b = "stop" -> stop_pressed
    [] b = "toggle" -> toggle_pressed

\* The device and stack state a handler works on, with the logs of the
\* transition in progress.
Cur ==
  [conn |-> current_conn, want |-> want_advertising, adv |-> adv_is_running,
   rpa |-> use_rotating_rpa, leds |-> leds,
   sadv |-> stk_adv, sident |-> stk_ident, links |-> stk_links, refs |-> refs,
   reqs |-> <<>>, rets |-> <<>>]

\* Program state before transition e; edges is the number of edges of e's
\* button the transition consumes.
Snapshot(e) ==
  [conn |-> current_conn, want |-> want_advertising, adv |-> adv_is_running,
   rpa |-> use_rotating_rpa, led3 |-> leds[3],
   edges |-> IF e \in Buttons THEN edges[e] ELSE 0, stop |-> since_stop]

\* Number of start-advertising requests in the request log q.
NStart(q) == Cardinality({i \in 1..Len(q) : q[i].op = "adv_start"})

NoPrev == [ev |-> "other", idle |-> FALSE, ok |-> FALSE, nstart |-> 0, adv |-> FALSE]

\* What the transition just finished leaves for the next one to compare with:
\* kept for a start intent, whose adv_start call the next may repeat.
Summary ==
  IF obs # "calls" THEN prev
  ELSE IF ev = "start"
  THEN [ev |-> "start", idle |-> pre.conn = NoConn /\ ~pre.adv,
        ok |-> rets[1].ret = 0, nstart |-> NStart(reqs), adv |-> adv_is_running]
  ELSE NoPrev

Req(op, ident, conn) == [op |-> op, ident |-> ident, conn |-> conn]
\* Program state a call of adv_start / adv_stop is entered in.
At(d) == [conn |-> d.conn, adv |-> d.adv, want |-> d.want, rpa |-> d.rpa]
\* LED0..LED2 show adv_is_running, current_conn != NULL and use_rotating_rpa.
LedsTrack(l, adv, conn, rpa) ==
  l[0] = adv /\ l[1] = (conn # NoConn) /\ l[2] = rpa
\* One call: the state at entry, whether the stack was asked and its result
\* res, the value returned, adv_is_running at the return and whether the LEDs
\* show the state at the return.
Ret(fn, at, asked, res, ret, adv, lit) ==
  [fn |-> fn, at |-> at, asked |-> asked, res |-> res, ret |-> ret, adv |-> adv,
   lit |-> lit]

\* ----------------------------------------------------------------- stack
\* Results bt_le_adv_start can report in stack state d.
bt_le_adv_start_results(d) ==
  IF d.sadv THEN {-EALREADY} \cup OtherErrs ELSE {0} \cup OtherErrs

bt_le_adv_stop_results == {0} \cup OtherErrs

bt_le_adv_start(d, useIdentity, err) ==
  LET d1 == [d EXCEPT !.reqs = Append(@, Req("adv_start", useIdentity, NoConn))]
  IN IF err = 0 THEN [d1 EXCEPT !.sadv = TRUE, !.sident = useIdentity] ELSE d1

bt_le_adv_stop(d, err) ==
  LET d1 == [d EXCEPT !.reqs = Append(@, Req("adv_stop", FALSE, NoConn))]
  IN IF err = 0 THEN [d1 EXCEPT !.sadv = FALSE] ELSE d1

bt_conn_disconnect(d, conn) ==
  [d EXCEPT !.reqs = Append(@, Req("disconnect", FALSE, conn))]

bt_conn_auth_pairing_confirm(d, conn) ==
  [d EXCEPT !.reqs = Append(@, Req("pairing_confirm", FALSE, conn))]

bt_conn_ref(d, conn) == [d EXCEPT !.refs[conn] = @ + 1]

bt_conn_unref(d, conn) == [d EXCEPT !.refs[conn] = @ - 1]

\* ------------------------------------------------------------------- LEDs
gpio_pin_set_dt(d, i, v) == [d EXCEPT !.leds[i] = v]

leds_update(d) ==
  gpio_pin_set_dt(gpio_pin_set_dt(gpio_pin_set_dt(d, 0, d.adv),
                                  1, d.conn # NoConn),
                  2, d.rpa)

\* ------------------------------------------------------------ advertising
\* Return ret from the call of fn entered in state d0, leaving state d.
Returned(d0, d, fn, asked, res, ret) ==
  [d EXCEPT !.rets = Append(@, Ret(fn, At(d0), asked, res, ret, d.adv,
                                   LedsTrack(d.leds, d.adv, d.conn, d.rpa)))]

\* adv_stop with adv_is_running cleared only when the stack reports success.
adv_stop_only_on_success(d, err) ==
  LET d1 == bt_le_adv_stop(d, err)
      d2 == IF err = 0 THEN [d1 EXCEPT !.adv = FALSE] ELSE d1
  IN Returned(d, leds_update(d2), "adv_stop", TRUE, err, err)

\* adv_stop without the call of leds_update.
adv_stop_no_leds(d, err) ==
  LET d1 == bt_le_adv_stop(d, err)
      d2 == [d1 EXCEPT !.adv = FALSE]
  IN Returned(d, d2, "adv_stop", TRUE, err, err)

adv_stop(d, err) ==
  LET d1 == bt_le_adv_stop(d, err)
      d2 == [d1 EXCEPT !.adv = FALSE]
  IN Returned(d, leds_update(d2), "adv_stop", TRUE, err, err)

\* adv_start without the early return on adv_is_running.
adv_start_no_running_check(d, rotating_rpa, err) ==
  IF d.conn # NoConn THEN Returned(d, d, "adv_start", FALSE, 0, 0)
  ELSE LET d1 == bt_le_adv_start(d, ~rotating_rpa, err)
       IN IF err # 0
          THEN IF err = -EALREADY
               THEN Returned(d, leds_update([d1 EXCEPT !.adv = TRUE]),
                             "adv_start", TRUE, err, 0)
               ELSE Returned(d, d1, "adv_start", TRUE, err, err)
          ELSE Returned(d, leds_update([d1 EXCEPT !.adv = TRUE]),
                        "adv_start", TRUE, err, 0)

\* adv_start with adv_is_running set before the result is inspected.
adv_start_sets_early(d, rotating_rpa, err) ==
  IF d.conn # NoConn THEN Returned(d, d, "adv_start", FALSE, 0, 0)
  ELSE IF d.adv THEN Returned(d, d, "adv_start", FALSE, 0, 0)
  ELSE LET d1 == [bt_le_adv_start(d, ~rotating_rpa, err) EXCEPT !.adv = TRUE]
       IN IF err # 0
          THEN IF err = -EALREADY
               THEN Returned(d, leds_update(d1), "adv_start", TRUE, err, 0)
               ELSE Returned(d, d1, "adv_start", TRUE, err, err)
          ELSE Returned(d, leds_update(d1), "adv_start", TRUE, err, 0)

adv_start(d, rotating_rpa, err) ==
  IF d.conn # NoConn THEN Returned(d, d, "adv_start", FALSE, 0, 0)
  ELSE IF d.adv THEN Returned(d, d, "adv_start", FALSE, 0, 0)
  ELSE LET d1 == bt_le_adv_start(d, ~rotating_rpa, err)
       IN IF err # 0
          THEN IF err = -EALREADY
               THEN Returned(d, leds_update([d1 EXCEPT !.adv = TRUE]),
                             "adv_start", TRUE, err, 0)
               ELSE Returned(d, d1, "adv_start", TRUE, err, err)
          ELSE Returned(d, leds_update([d1 EXCEPT !.adv = TRUE]),
                        "adv_start", TRUE, err, 0)

\* The stack can answer err to the start request adv_start makes in d (any
\* err when adv_start returns before asking).
StartAnswer(d, err) ==
  IF d.conn # NoConn \/ d.adv THEN err = 0 ELSE err \in bt_le_adv_start_results(d)

\* ----------------------------------------------------- connection callbacks
\* connected without the write adv_is_running = false.
connected_keeps_adv(d, conn, err) ==
  IF err # 0 THEN d
  ELSE leds_update([bt_conn_ref(d, conn) EXCEPT !.conn = conn])

\* connected without the early return on a failure status.
connected_ignores_err(d, conn, err) ==
  LET d1 == [bt_conn_ref(d, conn) EXCEPT !.conn = conn]
      d2 == [d1 EXCEPT !.adv = FALSE]
  IN leds_update(d2)

connected(d, conn, err) ==
  IF err # 0 THEN d
  ELSE LET d1 == [bt_conn_ref(d, conn) EXCEPT !.conn = conn]
           d2 == [d1 EXCEPT !.adv = FALSE]
       IN leds_update(d2)

\* disconnected resuming with the boot-time address mode, not the current one.
disconnected_fixed_mode(d, conn, err) ==
  LET d1 == IF d.conn # NoConn
            THEN [bt_conn_unref(d, d.conn) EXCEPT !.conn = NoConn]
            ELSE d
      d2 == leds_update(gpio_pin_set_dt(d1, 3, FALSE))
  IN IF d2.want THEN adv_start(d2, TRUE, err) ELSE d2

\* disconnected clearing current_conn without bt_conn_unref.
disconnected_no_unref(d, conn, err) ==
  LET d1 == [d EXCEPT !.conn = NoConn]
      d2 == leds_update(gpio_pin_set_dt(d1, 3, FALSE))
  IN IF d2.want THEN adv_start(d2, d2.rpa, err) ELSE d2

\* disconnected without the test of want_advertising.
disconnected_always_resumes(d, conn, err) ==
  LET d1 == IF d.conn # NoConn
            THEN [bt_conn_unref(d, d.conn) EXCEPT !.conn = NoConn]
            ELSE d
      d2 == leds_update(gpio_pin_set_dt(d1, 3, FALSE))
  IN adv_start(d2, d2.rpa, err)

disconnected(d, conn, err) ==
  LET d1 == IF d.conn # NoConn
            THEN [bt_conn_unref(d, d.conn) EXCEPT !.conn = NoConn]
            ELSE d
      d2 == leds_update(gpio_pin_set_dt(d1, 3, FALSE))
  IN IF d2.want THEN adv_start(d2, d2.rpa, err) ELSE d2

security_changed(d, conn) == d

\* -------------------------------------------------------- pairing callbacks
auth_passkey_display(d, conn) == gpio_pin_set_dt(d, 3, TRUE)

pairing_confirm(d, conn) == bt_conn_auth_pairing_confirm(d, conn)

\* auth_cancel that only logs.
auth_cancel_keeps_led(d, conn) == d

auth_cancel(d, conn) == gpio_pin_set_dt(d, 3, FALSE)

pairing_complete(d, conn) == gpio_pin_set_dt(d, 3, FALSE)

pairing_failed(d, conn) == gpio_pin_set_dt(d, 3, FALSE)

\* ------------------------------------------------------- main loop blocks
main_start(d, err) == adv_start([d EXCEPT !.want = TRUE], d.rpa, err)

\* The stop block without the test of current_conn.
main_stop_always_adv_stop(d, err) == adv_stop([d EXCEPT !.want = FALSE], err)

\* The stop block without the write want_advertising = false.
main_stop_keeps_want(d, err) ==
  IF d.conn # NoConn THEN bt_conn_disconnect(d, d.conn) ELSE adv_stop(d, err)

\* The stop block without the else branch.
main_stop_no_adv_stop(d, err) ==
  LET d1 == [d EXCEPT !.want = FALSE]
  IN IF d1.conn # NoConn THEN bt_conn_disconnect(d1, d1.conn) ELSE d1

main_stop(d, err) ==
  LET d1 == [d EXCEPT !.want = FALSE]
  IN IF d1.conn # NoConn THEN bt_conn_disconnect(d1, d1.conn)
     ELSE adv_stop(d1, err)

\* The toggle block restarting with the mode read before the flip.
main_toggle_stale_mode(d, errStop, errStart) ==
  LET d1 == [d EXCEPT !.rpa = ~@]
      d2 == IF d1.adv THEN adv_start(adv_stop(d1, errStop), d.rpa, errStart)
            ELSE d1
  IN leds_update(d2)

main_toggle(d, errStop, errStart) ==
  LET d1 == [d EXCEPT !.rpa = ~@]
      d2 == IF d1.adv THEN adv_start(adv_stop(d1, errStop), d1.rpa, errStart)
            ELSE d1
  IN leds_update(d2)

\* ------------------------------------------------------------ transitions
\* Store the result d of the transition named e.
Commit(e, d) ==
  /\ current_conn' = d.conn
  /\ want_advertising' = d.want
  /\ adv_is_running' = d.adv
  /\ use_rotating_rpa' = d.rpa
  /\ leds' = d.leds
  /\ stk_adv' = d.sadv
  /\ stk_ident' = d.sident
  /\ stk_links' = d.links
  /\ refs' = d.refs
  /\ reqs' = d.reqs
  /\ rets' = IF obs = "calls" THEN d.rets ELSE <<>>
  /\ ev' = e
  /\ pre' = Snapshot(e)
  /\ prev' = Summary
  /\ since_stop' = CASE obs # "iter" -> since_stop
                     [] e = "stop" /\ current_conn # NoConn -> "stopped"
                     [] e = "start" /\ since_stop = "stopped" -> "restarted"
                     [] e = "disconnected" -> "none"
                     [] OTHER -> since_stop
  /\ obs' = obs
  /\ UNCHANGED fine

\* An edge of button b is counted / the loop examines b's flag / the loop acts
\* on b's flag.
Counted(b) ==
  /\ obs = "calls" => edges[b] < MaxEdges
  /\ edges' = IF obs = "calls" THEN [edges EXCEPT ![b] = @ + 1] ELSE edges

Acted(b) ==
  /\ edges' = [edges EXCEPT ![b] = 0]
  /\ iter' = IF obs = "iter" THEN iter \cup {b} ELSE iter

InitState ==
  /\ current_conn = NoConn
  /\ start_pressed = FALSE
  /\ stop_pressed = FALSE
  /\ toggle_pressed = FALSE
  /\ want_advertising = FALSE
  /\ adv_is_running = FALSE
  /\ use_rotating_rpa = TRUE
  /\ leds = [i \in 0..(NUM_LEDS - 1) |-> i = 2]
  /\ pc = "start"
  /\ stk_adv = FALSE
  /\ stk_ident = FALSE
  /\ stk_links = {}
  /\ refs = [c \in Conns |-> 0]
  /\ reqs = <<>>
  /\ rets = <<>>
  /\ ev = "boot"
  /\ pre = [conn |-> NoConn, want |-> FALSE, adv |-> FALSE, rpa |-> TRUE,
            led3 |-> FALSE, edges |-> 0, stop |-> "none"]
  /\ prev = NoPrev
  /\ edges = [b \in Buttons |-> 0]
  /\ since_stop = "none"
  /\ iter = {}
  /\ mpc = "start_test"
  /\ ra = "none"
  /\ rot = FALSE
  /\ reg = NoConn
  /\ owed = [b \in Buttons |-> FALSE]
  /\ race = "none"
  /\ disc = "none"

Init == InitState /\ obs = "calls"

\* The same program with the per-iteration history recorded.
InitIter == InitState /\ obs = "iter"

\* Button ISRs.
isr_start ==
  /\ start_pressed' = TRUE
  /\ Counted("start")
  /\ UNCHANGED <<prog, stk, hist, pc, ghost, fine, stop_pressed, toggle_pressed>>

isr_stop ==
  /\ stop_pressed' = TRUE
  /\ Counted("stop")
  /\ UNCHANGED <<prog, stk, hist, pc, ghost, fine, start_pressed, toggle_pressed>>

isr_toggle ==
  /\ toggle_pressed' = TRUE
  /\ Counted("toggle")
  /\ UNCHANGED <<prog, stk, hist, pc, ghost, fine, start_pressed, stop_pressed>>

\* while (1) { if (start_pressed) {...} if (stop_pressed) {...}
\*             if (toggle_pressed) {...} k_msleep(20); }
\* The start block without the write start_pressed = false.
StartIntent_keeps_flag ==
  /\ pc = "start" /\ start_pressed
  /\ \E err \in bt_le_adv_start_results(Cur) \cup {0} :
       /\ StartAnswer([Cur EXCEPT !.want = TRUE], err)
       /\ Commit("start", main_start(Cur, err))
  /\ Acted("start")
  /\ pc' = "stop"
  /\ UNCHANGED <<start_pressed, stop_pressed, toggle_pressed>>

StartIntent ==
  /\ pc = "start" /\ start_pressed
  /\ \E err \in bt_le_adv_start_results(Cur) \cup {0} :
       /\ StartAnswer([Cur EXCEPT !.want = TRUE], err)
       /\ Commit("start", main_start(Cur, err))
  /\ start_pressed' = FALSE
  /\ Acted("start")
  /\ pc' = "stop"
  /\ UNCHANGED <<stop_pressed, toggle_pressed>>

StartSkip ==
  /\ pc = "start" /\ ~start_pressed
  /\ pc' = "stop"
  /\ UNCHANGED <<prog, stk, flags, hist, edges, ghost, fine>>

StopIntent ==
  /\ pc = "stop" /\ stop_pressed
  /\ \E err \in bt_le_adv_stop_results :
       /\ (current_conn # NoConn => err = 0)
       /\ Commit("stop", main_stop(Cur, err))
  /\ stop_pressed' = FALSE
  /\ Acted("stop")
  /\ pc' = "toggle"
  /\ UNCHANGED <<start_pressed, toggle_pressed>>

StopSkip ==
  /\ pc = "stop" /\ ~stop_pressed
  /\ pc' = "toggle"
  /\ UNCHANGED <<prog, stk, flags, hist, edges, ghost, fine>>

ToggleIntent ==
  /\ pc = "toggle" /\ toggle_pressed
  /\ \E errStop \in bt_le_adv_stop_results, errStart \in {0, -EALREADY} \cup OtherErrs :
       /\ (~adv_is_running => errStop = 0 /\ errStart = 0)
       /\ (adv_is_running =>
             StartAnswer(adv_stop([Cur EXCEPT !.rpa = ~@], errStop), errStart))
       /\ Commit("toggle", main_toggle(Cur, errStop, errStart))
  /\ toggle_pressed' = FALSE
  /\ Acted("toggle")
  /\ pc' = "sleep"
  /\ UNCHANGED <<start_pressed, stop_pressed>>

ToggleSkip ==
  /\ pc = "toggle" /\ ~toggle_pressed
  /\ pc' = "sleep"
  /\ UNCHANGED <<prog, stk, flags, hist, edges, ghost, fine>>

Sleep ==
  /\ pc = "sleep"
  /\ pc' = "start"
  /\ iter' = {}
  /\ UNCHANGED <<prog, stk, flags, hist, edges, since_stop, obs, fine>>

\* Stack notifications.  A central connects while the stack broadcasts; the
\* stack takes a free connection object and stops broadcasting.
OnConnected ==
  /\ stk_adv
  /\ \E c \in Conns :
       /\ c \notin stk_links /\ refs[c] = 0
       /\ Commit("connected",
                 connected([Cur EXCEPT !.sadv = FALSE, !.links = @ \cup {c}], c, 0))
  /\ UNCHANGED <<flags, pc, edges, iter>>

\* A connection attempt that did not complete; the broadcast may have ended.
OnConnectFailed ==
  /\ \E c \in Conns, keep \in BOOLEAN :
       /\ c \notin stk_links /\ refs[c] = 0
       /\ (~stk_adv => keep)
       /\ Commit("connect_failed",
                 connected([Cur EXCEPT !.sadv = @ /\ keep], c, 1))
  /\ UNCHANGED <<flags, pc, edges, iter>>

OnDisconnected ==
  /\ \E c \in stk_links :
       LET d0 == [Cur EXCEPT !.links = @ \ {c}]
       IN \E err \in {0, -EALREADY} \cup OtherErrs :
            /\ IF want_advertising
               THEN err \in bt_le_adv_start_results(d0)
               ELSE err = 0
            /\ Commit("disconnected", disconnected(d0, c, err))
  /\ UNCHANGED <<flags, pc, edges, iter>>

OnSecurityChanged ==
  /\ \E c \in stk_links : Commit("security_changed", security_changed(Cur, c))
  /\ UNCHANGED <<flags, pc, edges, iter>>

OnPasskeyDisplay ==
  /\ \E c \in stk_links : Commit("passkey_display", auth_passkey_display(Cur, c))
  /\ UNCHANGED <<flags, pc, edges, iter>>

OnPairingConfirm ==
  /\ \E c \in stk_links : Commit("pairing_confirm", pairing_confirm(Cur, c))
  /\ UNCHANGED <<flags, pc, edges, iter>>

OnAuthCancel ==
  /\ \E c \in stk_links : Commit("auth_cancel", auth_cancel(Cur, c))
  /\ UNCHANGED <<flags, pc, edges, iter>>

OnPairingComplete ==
  /\ \E c \in stk_links : Commit("pairing_complete", pairing_complete(Cur, c))
  /\ UNCHANGED <<flags, pc, edges, iter>>

OnPairingFailed ==
  /\ \E c \in stk_links : Commit("pairing_failed", pairing_failed(Cur, c))
  /\ UNCHANGED <<flags, pc, edges, iter>>

Next ==
  \/ isr_start \/ isr_stop \/ isr_toggle
  \/ StartIntent \/ StartSkip
  \/ StopIntent \/ StopSkip
  \/ ToggleIntent \/ ToggleSkip
  \/ Sleep
  \/ OnConnected \/ OnConnectFailed \/ OnDisconnected
  \/ OnSecurityChanged
  \/ OnPasskeyDisplay \/ OnPairingConfirm
  \/ OnAuthCancel \/ OnPairingComplete \/ OnPairingFailed

Spec == Init /\ [][Next]_vars

SpecIter == InitIter /\ [][Next]_vars

\* ------------------------------------------------ statement-level main loop
\* The main thread runs one statement per step; ISRs and stack callbacks run
\* in other contexts and are not held off by anything in main.c, so they come
\* between any two statements.  A callback runs to its end before the main
\* thread continues.
InitFine == InitState /\ obs = "fine"

\* Connection objects the stack hands out at statement level.
MaxFineConns == 1

FineConns == 1..MaxFineConns

Frozen == UNCHANGED <<hist, pc, edges, ghost>>

\* The points of the loop between two blocks.
Boundary == {"start_test", "stop_test", "toggle_test", "sleep"}

FlagSet(b, v) ==
  /\ start_pressed' = IF b = "start" THEN v ELSE start_pressed
  /\ stop_pressed' = IF b = "stop" THEN v ELSE stop_pressed
  /\ toggle_pressed' = IF b = "toggle" THEN v ELSE toggle_pressed

\* if (b_pressed)
Test(b, taken, skipped) ==
  /\ mpc' = IF Flag(b) THEN taken ELSE skipped
  /\ disc' = "none"
  /\ UNCHANGED <<prog, stk, flags, ra, rot, reg, owed, race>>
  /\ Frozen

\* b_pressed = false;
Clear(b, next) ==
  /\ FlagSet(b, FALSE)
  /\ mpc' = next
  /\ UNCHANGED <<prog, stk, ra, rot, reg, fghost>>
  /\ Frozen

\* return from adv_start / adv_stop
Return ==
  /\ mpc' = ra
  /\ ra' = "none"
  /\ rot' = FALSE

\* What the handle arg is when given to bt_conn_disconnect: NULL, a connection
\* whose reference main.c has released, or one it holds.
Handle(arg) ==
  IF arg = NoConn THEN "null"
  ELSE IF refs[arg] = 0 THEN "released"
  ELSE "held"

F_isr(b, clearing) ==
  /\ FlagSet(b, TRUE)
  /\ owed' = [owed EXCEPT ![b] = TRUE]
  /\ race' = IF mpc = clearing THEN b ELSE race
  /\ UNCHANGED <<prog, stk, fctl, disc>>
  /\ Frozen

F_isr_start == F_isr("start", "start_clear")

F_isr_stop == F_isr("stop", "stop_clear")

F_isr_toggle == F_isr("toggle", "toggle_clear")

\* main.c:384
F_start_test == mpc = "start_test" /\ Test("start", "start_clear", "stop_test")

\* The start block clearing stop_pressed in place of start_pressed.
F_start_clear_wrong_flag == mpc = "start_clear" /\ Clear("stop", "start_want")

\* main.c:385
F_start_clear == mpc = "start_clear" /\ Clear("start", "start_want")

\* main.c:387-388, up to the entry of adv_start
F_start_want ==
  /\ mpc = "start_want"
  /\ want_advertising' = TRUE
  /\ owed' = [owed EXCEPT !["start"] = FALSE]
  /\ race' = "none"
  /\ rot' = use_rotating_rpa
  /\ ra' = "stop_test"
  /\ mpc' = "as_conn"
  /\ UNCHANGED <<current_conn, adv_is_running, use_rotating_rpa, leds, stk,
                 flags, reg, disc>>
  /\ Frozen

\* main.c:126
F_as_conn ==
  /\ mpc = "as_conn"
  /\ IF current_conn # NoConn THEN Return
     ELSE mpc' = "as_run" /\ UNCHANGED <<ra, rot>>
  /\ UNCHANGED <<prog, stk, flags, reg, fghost>>
  /\ Frozen

\* main.c:131
F_as_run ==
  /\ mpc = "as_run"
  /\ IF adv_is_running THEN Return
     ELSE mpc' = "as_req" /\ UNCHANGED <<ra, rot>>
  /\ UNCHANGED <<prog, stk, flags, reg, fghost>>
  /\ Frozen

\* main.c:136-160
F_as_req ==
  /\ mpc = "as_req"
  /\ \E err \in bt_le_adv_start_results(Cur) :
       LET d == bt_le_adv_start(Cur, ~rot, err)
       IN /\ stk_adv' = d.sadv
          /\ stk_ident' = d.sident
          /\ IF err = 0 \/ err = -EALREADY
             THEN mpc' = "as_set" /\ UNCHANGED <<ra, rot>>
             ELSE Return
  /\ UNCHANGED <<prog, stk_links, refs, flags, reg, fghost>>
  /\ Frozen

\* main.c:154 and 162
F_as_set ==
  /\ mpc = "as_set"
  /\ adv_is_running' = TRUE
  /\ mpc' = "as_leds"
  /\ UNCHANGED <<current_conn, want_advertising, use_rotating_rpa, leds, stk,
                 flags, ra, rot, reg, fghost>>
  /\ Frozen

\* main.c:155-156 and 167-168
F_as_leds ==
  /\ mpc = "as_leds"
  /\ leds' = leds_update(Cur).leds
  /\ Return
  /\ UNCHANGED <<current_conn, want_advertising, adv_is_running,
                 use_rotating_rpa, stk, flags, reg, fghost>>
  /\ Frozen

\* main.c:391
F_stop_test == mpc = "stop_test" /\ Test("stop", "stop_clear", "toggle_test")

\* main.c:392
F_stop_clear == mpc = "stop_clear" /\ Clear("stop", "stop_want")

\* main.c:394
F_stop_want ==
  /\ mpc = "stop_want"
  /\ want_advertising' = FALSE
  /\ owed' = [owed EXCEPT !["stop"] = FALSE]
  /\ race' = "none"
  /\ mpc' = "stop_conn"
  /\ UNCHANGED <<current_conn, adv_is_running, use_rotating_rpa, leds, stk,
                 flags, ra, rot, reg, disc>>
  /\ Frozen

\* main.c:396, and the call of adv_stop at 399
F_stop_conn ==
  /\ mpc = "stop_conn"
  /\ reg' = current_conn
  /\ IF current_conn # NoConn
     THEN mpc' = "stop_disc" /\ UNCHANGED ra
     ELSE mpc' = "st_req" /\ ra' = "toggle_test"
  /\ UNCHANGED <<prog, stk, flags, rot, fghost>>
  /\ Frozen

\* main.c:397.  current_conn is not volatile: the argument is the value the
\* test read or one read again, as the compiler chooses.
F_stop_disc ==
  /\ mpc = "stop_disc"
  /\ \E arg \in {reg, current_conn} : disc' = Handle(arg)
  /\ reg' = NoConn
  /\ mpc' = "toggle_test"
  /\ UNCHANGED <<prog, stk, flags, ra, rot, owed, race>>
  /\ Frozen

\* main.c:113-118
F_st_req ==
  /\ mpc = "st_req"
  /\ \E err \in bt_le_adv_stop_results : stk_adv' = bt_le_adv_stop(Cur, err).sadv
  /\ mpc' = "st_clr"
  /\ UNCHANGED <<prog, stk_ident, stk_links, refs, flags, ra, rot, reg, fghost>>
  /\ Frozen

\* main.c:119
F_st_clr ==
  /\ mpc = "st_clr"
  /\ adv_is_running' = FALSE
  /\ mpc' = "st_leds"
  /\ UNCHANGED <<current_conn, want_advertising, use_rotating_rpa, leds, stk,
                 flags, ra, rot, reg, fghost>>
  /\ Frozen

\* main.c:120-121
F_st_leds ==
  /\ mpc = "st_leds"
  /\ leds' = leds_update(Cur).leds
  /\ Return
  /\ UNCHANGED <<current_conn, want_advertising, adv_is_running,
                 use_rotating_rpa, stk, flags, reg, fghost>>
  /\ Frozen

\* main.c:403
F_toggle_test == mpc = "toggle_test" /\ Test("toggle", "toggle_clear", "sleep")

\* main.c:404
F_toggle_clear == mpc = "toggle_clear" /\ Clear("toggle", "toggle_flip")

\* main.c:405
F_toggle_flip ==
  /\ mpc = "toggle_flip"
  /\ use_rotating_rpa' = ~use_rotating_rpa
  /\ owed' = [owed EXCEPT !["toggle"] = FALSE]
  /\ race' = "none"
  /\ mpc' = "toggle_run"
  /\ UNCHANGED <<current_conn, want_advertising, adv_is_running, leds, stk,
                 flags, ra, rot, reg, disc>>
  /\ Frozen

\* main.c:410, and the call of adv_stop at 411
F_toggle_run ==
  /\ mpc = "toggle_run"
  /\ IF adv_is_running
     THEN mpc' = "st_req" /\ ra' = "toggle_restart"
     ELSE mpc' = "toggle_leds" /\ UNCHANGED ra
  /\ UNCHANGED <<prog, stk, flags, rot, reg, fghost>>
  /\ Frozen

\* main.c:412, up to the entry of adv_start
F_toggle_restart ==
  /\ mpc = "toggle_restart"
  /\ rot' = use_rotating_rpa
  /\ ra' = "toggle_leds"
  /\ mpc' = "as_conn"
  /\ UNCHANGED <<prog, stk, flags, reg, fghost>>
  /\ Frozen

\* main.c:414
F_toggle_leds ==
  /\ mpc = "toggle_leds"
  /\ leds' = leds_update(Cur).leds
  /\ mpc' = "sleep"
  /\ UNCHANGED <<current_conn, want_advertising, adv_is_running,
                 use_rotating_rpa, stk, flags, ra, rot, reg, fghost>>
  /\ Frozen

\* main.c:417
F_sleep ==
  /\ mpc = "sleep"
  /\ mpc' = "start_test"
  /\ UNCHANGED <<prog, stk, flags, ra, rot, reg, fghost>>
  /\ Frozen

\* Store the result d of a callback.
FCommit(d) ==
  /\ current_conn' = d.conn
  /\ want_advertising' = d.want
  /\ adv_is_running' = d.adv
  /\ use_rotating_rpa' = d.rpa
  /\ leds' = d.leds
  /\ stk_adv' = d.sadv
  /\ stk_ident' = d.sident
  /\ stk_links' = d.links
  /\ refs' = d.refs
  /\ UNCHANGED <<flags, fctl, owed, race, disc>>
  /\ Frozen

F_connected ==
  /\ stk_adv
  /\ \E c \in FineConns :
       /\ c \notin stk_links /\ refs[c] = 0
       /\ FCommit(connected([Cur EXCEPT !.sadv = FALSE, !.links = @ \cup {c}], c, 0))

F_connect_failed ==
  \E c \in FineConns, keep \in BOOLEAN :
    /\ c \notin stk_links /\ refs[c] = 0
    /\ (~stk_adv => keep)
    /\ FCommit(connected([Cur EXCEPT !.sadv = @ /\ keep], c, 1))

F_disconnected ==
  \E c \in stk_links :
    LET d0 == [Cur EXCEPT !.links = @ \ {c}]
    IN \E err \in {0, -EALREADY} \cup OtherErrs :
         /\ IF want_advertising
            THEN err \in bt_le_adv_start_results(d0)
            ELSE err = 0
         /\ FCommit(disconnected(d0, c, err))

F_security_changed == \E c \in stk_links : FCommit(security_changed(Cur, c))

F_passkey_display == \E c \in stk_links : FCommit(auth_passkey_display(Cur, c))

F_pairing_confirm == \E c \in stk_links : FCommit(pairing_confirm(Cur, c))

F_auth_cancel == \E c \in stk_links : FCommit(auth_cancel(Cur, c))

F_pairing_complete == \E c \in stk_links : FCommit(pairing_complete(Cur, c))

F_pairing_failed == \E c \in stk_links : FCommit(pairing_failed(Cur, c))

FMain ==
  \/ F_start_test \/ F_start_clear \/ F_start_want
  \/ F_as_conn \/ F_as_run \/ F_as_req \/ F_as_set \/ F_as_leds
  \/ F_stop_test \/ F_stop_clear \/ F_stop_want \/ F_stop_conn \/ F_stop_disc
  \/ F_st_req \/ F_st_clr \/ F_st_leds
  \/ F_toggle_test \/ F_toggle_clear \/ F_toggle_flip \/ F_toggle_run
  \/ F_toggle_restart \/ F_toggle_leds
  \/ F_sleep

FNext ==
  \/ F_isr_start \/ F_isr_stop \/ F_isr_toggle
  \/ FMain
  \/ F_connected \/ F_connect_failed \/ F_disconnected
  \/ F_security_changed
  \/ F_passkey_display \/ F_pairing_confirm
  \/ F_auth_cancel \/ F_pairing_complete \/ F_pairing_failed

\* The main thread is scheduled again after every ISR and callback, and
\* k_msleep returns.
SpecFine == InitFine /\ [][FNext]_vars /\ WF_vars(FMain)

TypeOK ==
  /\ current_conn \in {NoConn} \cup Conns
  /\ adv_is_running \in BOOLEAN
  /\ pc \in {"start", "stop", "toggle", "sleep"}

\* ------------------------------------------------------------ properties
StartReq(ident) == Req("adv_start", ident, NoConn)
StopReq == Req("adv_stop", FALSE, NoConn)
DisconnectReq(conn) == Req("disconnect", FALSE, conn)
LastRet == rets[Len(rets)]

\* C1: mutual exclusion.  In every reachable state adv_is_running and
\* current_conn # NULL are not both true.
C1_MutualExclusion == ~(adv_is_running /\ current_conn # NoConn)

\* A connection arrived while the device was advertising.
C1_Witness ==
  /\ ev = "connected" /\ pre.adv
  /\ current_conn # NoConn /\ ~adv_is_running

\* C2: disconnect-resume.  A disconnect notification handled in the Connected
\* state with want_advertising true sends exactly one request to the stack, a
\* start-advertising request whose identity option is the negation of
\* use_rotating_rpa, and when the stack accepts it the device is Advertising.
C2_DisconnectResume ==
  (ev = "disconnected" /\ pre.conn # NoConn /\ pre.want) =>
    /\ reqs = <<StartReq(~use_rotating_rpa)>>
    /\ use_rotating_rpa = pre.rpa
    /\ Len(rets) = 1 /\ LastRet.fn = "adv_start" /\ LastRet.asked
    /\ (LastRet.res \in {0, -EALREADY} =>
          current_conn = NoConn /\ adv_is_running)

\* boot, start intent, connected, disconnected: Advertising again, in the
\* stable-identity mode for one of the runs.
C2_Witness ==
  /\ ev = "disconnected" /\ pre.conn # NoConn /\ pre.want
  /\ NStart(reqs) = 1 /\ adv_is_running /\ current_conn = NoConn
  /\ ~use_rotating_rpa

\* C3: stop-while-connected.  A stop intent consumed while a connection is
\* present clears want_advertising and sends exactly one request, the
\* disconnect of the current connection.
C3_StopWhileConnected ==
  (ev = "stop" /\ pre.conn # NoConn) =>
    /\ ~want_advertising
    /\ reqs = <<DisconnectReq(pre.conn)>>

C3_Witness ==
  /\ ev = "stop" /\ pre.conn # NoConn /\ pre.want
  /\ Len(reqs) = 1 /\ reqs[1].op = "disconnect"

\* C4: toggle-while-advertising.  A toggle intent consumed in the Advertising
\* state sends one stop request and then one start request whose identity
\* option is true when the mode was RotatingAddress before the toggle and
\* false when it was StableIdentity.
C4_ToggleWhileAdvertising ==
  (ev = "toggle" /\ pre.adv /\ pre.conn = NoConn) =>
    reqs = <<StopReq, StartReq(pre.rpa)>>

C4_Witness ==
  /\ ev = "toggle" /\ pre.adv /\ pre.conn = NoConn /\ pre.rpa
  /\ Len(reqs) = 2 /\ reqs[2].op = "adv_start" /\ reqs[2].ident

\* C5: intent coalescing.  A button's flag is pending exactly while at least
\* one edge has arrived since the flag was last examined, and every execution
\* of a policy action consumes all the edges (one or more) that arrived since
\* then: any number of edges before an examination gives one execution.
C5_IntentCoalescing ==
  \A b \in Buttons :
    /\ Flag(b) <=> edges[b] > 0
    /\ ev = b => pre.edges >= 1

\* Two start edges, one start action, and the loop has come round to the
\* start block again with nothing pending.
C5_Witness ==
  /\ ev = "start" /\ pre.edges >= 2
  /\ pc = "start" /\ ~start_pressed /\ edges["start"] = 0

\* C6: start idempotence.  Two start intents in succession with no transition
\* between them, the first entered with no connection and not advertising and
\* accepted by the stack: adv_is_running is true after each adv_start call,
\* the second call returns 0 without asking the stack, and the two calls send
\* at most one start-advertising request.
C6_StartIdempotence ==
  (ev = "start" /\ prev.ev = "start" /\ prev.idle /\ prev.ok) =>
    /\ prev.adv /\ adv_is_running
    /\ Len(rets) = 1 /\ LastRet.fn = "adv_start"
    /\ LastRet.ret = 0 /\ ~LastRet.asked
    /\ prev.nstart + NStart(reqs) <= 1

C6_Witness ==
  /\ ev = "start" /\ prev.ev = "start" /\ prev.idle /\ prev.ok
  /\ prev.nstart = 1 /\ reqs = <<>> /\ adv_is_running

\* C7 as stated: LED3 is on after a passkey-display event, off after pairing
\* cancelled, complete and failed, and unchanged by every other transition.
PairingEnd == {"auth_cancel", "pairing_complete", "pairing_failed"}

C7_Original ==
  /\ ev = "passkey_display" => leds[3]
  /\ ev \in PairingEnd => ~leds[3]
  /\ ev \notin PairingEnd \cup {"passkey_display"} => leds[3] = pre.led3

\* C7 amended: LED3 is on after a passkey-display event, off after pairing
\* cancelled, complete and failed and after every disconnect notification,
\* and unchanged by every other transition.
C7_PairingIndicator ==
  /\ ev = "passkey_display" => leds[3]
  /\ ev \in PairingEnd \cup {"disconnected"} => ~leds[3]
  /\ ev \notin PairingEnd \cup {"passkey_display", "disconnected"} =>
       leds[3] = pre.led3

\* The link dropped while the passkey indicator was on.
C7_Witness == ev = "disconnected" /\ pre.led3 /\ ~leds[3]

\* C8: start outcome mapping.  For every adv_start call entered with no
\* connection and adv_is_running false: a stack result of 0 or -EALREADY makes
\* it return 0 with adv_is_running true; any other result is returned as is,
\* with adv_is_running false and want_advertising, current_conn and
\* use_rotating_rpa as at the call's entry.  (adv_start is the last call of
\* every transition that makes it.)
C8_StartOutcome ==
  (rets # <<>> /\ LastRet.fn = "adv_start"
     /\ LastRet.at.conn = NoConn /\ ~LastRet.at.adv) =>
    /\ LastRet.asked
    /\ IF LastRet.res \in {0, -EALREADY}
       THEN LastRet.ret = 0 /\ LastRet.adv /\ adv_is_running
       ELSE /\ LastRet.ret = LastRet.res
            /\ ~LastRet.adv /\ ~adv_is_running
            /\ want_advertising = LastRet.at.want
            /\ current_conn = LastRet.at.conn
            /\ use_rotating_rpa = LastRet.at.rpa

\* A start intent the stack refused.
C8_Witness ==
  /\ ev = "start" /\ rets # <<>> /\ LastRet.fn = "adv_start"
  /\ LastRet.asked /\ LastRet.res \in OtherErrs /\ LastRet.ret = LastRet.res
  /\ ~adv_is_running /\ want_advertising

\* C9: stop always wins locally.  adv_is_running is false at the return of
\* every adv_stop call, whatever the stack reported.
C9_StopWins ==
  \A i \in 1..Len(rets) : rets[i].fn = "adv_stop" => ~rets[i].adv

\* A stop the stack refused while the device was advertising.
C9_Witness ==
  \E i \in 1..Len(rets) :
    /\ rets[i].fn = "adv_stop" /\ rets[i].at.adv
    /\ rets[i].res # 0 /\ ~rets[i].adv

\* C10: observability-only events.  A failed connection notification, a
\* security-changed notification and every pairing event leave current_conn,
\* adv_is_running, want_advertising and use_rotating_rpa unchanged and send
\* no start-advertising, stop-advertising or disconnect request.
Observability ==
  {"connect_failed", "security_changed", "passkey_display", "pairing_confirm"}
    \cup PairingEnd

C10_ObservabilityOnly ==
  ev \in Observability =>
    /\ current_conn = pre.conn
    /\ adv_is_running = pre.adv
    /\ want_advertising = pre.want
    /\ use_rotating_rpa = pre.rpa
    /\ \A i \in 1..Len(reqs) :
         reqs[i].op \notin {"adv_start", "adv_stop", "disconnect"}

\* A connection attempt failed while the device was advertising.
C10_Witness ==
  /\ ev = "connect_failed" /\ pre.adv /\ adv_is_running
  /\ current_conn = NoConn

\* C11 as stated: after a stop intent processed with a connection present,
\* the disconnect notification leaves the device Idle and sends no
\* start-advertising request, whatever button edges came in between.
C11_Original ==
  (ev = "disconnected" /\ pre.stop \in {"stopped", "restarted"}) =>
    /\ current_conn = NoConn /\ ~adv_is_running
    /\ NStart(reqs) = 0

\* C11 amended: the same, provided the main loop processed no start intent
\* between the stop intent and the notification (edges still pending do not
\* matter).
C11_StopThenDisconnect ==
  (ev = "disconnected" /\ pre.stop = "stopped") =>
    /\ current_conn = NoConn /\ ~adv_is_running
    /\ NStart(reqs) = 0

\* Idle after the disconnect, with a start edge that arrived in between still
\* pending.
C11_Witness ==
  /\ ev = "disconnected" /\ pre.stop = "stopped" /\ pre.conn # NoConn
  /\ current_conn = NoConn /\ ~adv_is_running /\ start_pressed

\* A step of a connection or pairing callback.
FCallback ==
  \/ F_connected \/ F_connect_failed \/ F_disconnected
  \/ F_security_changed
  \/ F_passkey_display \/ F_pairing_confirm
  \/ F_auth_cancel \/ F_pairing_complete \/ F_pairing_failed

\* C12: serialization.  A callback-driven transition runs only while the
\* main thread is between two blocks of its loop, never while the handling
\* of a start, stop or toggle intent is partway through.
C12_Serialization == [][FCallback => mpc \in Boundary]_vars

\* C13: connection reference balance.  main.c holds exactly one reference,
\* on current_conn, while a connection is present and none otherwise; a
\* successful connected notification never overwrites a held reference, the
\* disconnect notification releases the one held, and a held reference is
\* always of a live link.
C13_RefBalance ==
  /\ \A c \in Conns : refs[c] = IF current_conn = c THEN 1 ELSE 0
  /\ current_conn # NoConn => current_conn \in stk_links
  /\ ev = "connected" => pre.conn = NoConn /\ refs[current_conn] = 1
  /\ ev = "disconnected" => pre.conn # NoConn /\ refs[pre.conn] = 0
  /\ ev = "connect_failed" => current_conn = pre.conn

C13_Witness ==
  /\ ev = "disconnected" /\ pre.conn # NoConn
  /\ \A c \in Conns : refs[c] = 0

\* C14: no corruption under interleaving.  With the callbacks running between
\* any two statements of the main loop, no reachable state has adv_is_running
\* true while current_conn is set.
C14_NoCorruption == current_conn # NoConn => ~adv_is_running

\* C15: no use of the handle after release.  The handle the stop block gives
\* to bt_conn_disconnect is a connection whose reference main.c still holds,
\* neither NULL nor one it has released.
C15_HandleHeld == disc \in {"none", "held"}

\* C16: indicators track state.  In every state (each is the end of a
\* transition) and at the return of every adv_start and adv_stop call LED0
\* shows adv_is_running, LED1 current_conn != NULL and LED2 use_rotating_rpa.
C16_IndicatorsTrack ==
  /\ LedsTrack(leds, adv_is_running, current_conn, use_rotating_rpa)
  /\ \A i \in 1..Len(rets) : rets[i].lit

\* A toggle whose restart the stack refused: adv_start returned on its error
\* path, which does not call leds_update.
C16_Witness ==
  /\ ev = "toggle" /\ pre.adv /\ ~adv_is_running
  /\ Len(rets) = 2 /\ rets[2].ret # 0 /\ rets[2].lit
  /\ leds[0] = FALSE /\ leds[2] = use_rotating_rpa

\* C17: stop supersedes a pending start.  Once an iteration has acted on the
\* start flag and on the stop flag, want_advertising and adv_is_running are
\* false for the rest of the iteration, and the stop block sent the
\* disconnect request when a connection was present.
C17_StopSupersedesStart ==
  /\ ({"start", "stop"} \subseteq iter /\ pc \in {"toggle", "sleep"}) =>
       ~want_advertising /\ ~adv_is_running
  /\ (ev = "stop" /\ "start" \in iter /\ pre.conn # NoConn) =>
       reqs = <<DisconnectReq(pre.conn)>>

\* The start block started the broadcast and the stop block of the same
\* iteration stopped it.
C17_Witness ==
  /\ {"start", "stop"} \subseteq iter /\ pc = "sleep"
  /\ ev = "stop" /\ pre.adv /\ pre.want
  /\ ~want_advertising /\ ~adv_is_running

\* C18: no lost intent.  With the main loop scheduled fairly, every edge of a
\* button is followed by the first statement of that button's policy action,
\* and every set flag is cleared.  ([]<>~P is P ~> ~P.)
C18_NoLostIntent ==
  \A b \in Buttons : []<>(~owed[b]) /\ []<>(~Flag(b))

\* An edge came between the test of the flag and its clearing; the flag is
\* cleared and the action is still to run.
C18_Witness == \E b \in Buttons : race = b /\ ~Flag(b) /\ owed[b]

\* C19: advertising only when desired.  In every reachable state
\* adv_is_running implies want_advertising.
C19_AdvOnlyWhenWanted == adv_is_running => want_advertising

C19_Witness ==
  /\ ev = "stop" /\ pre.adv /\ pre.want
  /\ ~adv_is_running /\ ~want_advertising

\* C20: running broadcast uses the current privacy mode.  Whenever
\* adv_is_running is true and the stack is broadcasting, the broadcast was
\* started with the identity option equal to ~use_rotating_rpa.
C20_RunningMode ==
  (adv_is_running /\ stk_adv) => stk_ident = ~use_rotating_rpa

====
